---- MODULE Spec2Model ----
(***************************************************************************)
(* A model of the en-300-468-reader crate: the text fields of ETSI         *)
(* EN 300 468 (src/src/lib.rs) and the Service Description Table views     *)
(* (src/src/sdt.rs).                                                       *)
(*                                                                         *)
(* The crate is a library of views over borrowed byte slices.  A behaviour *)
(* of the model constructs one object over one byte buffer (Init) and then *)
(* calls its methods (one action per method).  A byte is a number 0..255,  *)
(* a slice is a sequence of bytes; the Rust index data[i] is data[i+1]     *)
(* here.  A call ends in one of                                            *)
(*    Value(v)   a plain return value                                      *)
(*    Ok(v)      Result::Ok(v)                                             *)
(*    Err(e)     Result::Err(e)                                            *)
(*    Panic(w)   the call panics (the thread unwinds; nothing is returned) *)
(***************************************************************************)
EXTENDS Integers, Sequences, FiniteSets, TLC

VARIABLES
    obj,    \* the object constructed: [kind |-> ..., data |-> <bytes>, ...]
    call,   \* the method called last, "none" before the first call
    ret,    \* what that call ended in
    fed,    \* the byte slices that call handed to a charset decoder
    remaining_data, \* ServiceIterator.remaining_data
    yielded, \* the Service records the iterator has returned so far, in order
    delivered, \* the sections SdtProcessor::section was called with, in order
    consumed \* the values the consumer was called with, in order

vars == <<obj, call, ret, fed, remaining_data, yielded, delivered, consumed>>

Byte == 0..255

Value(v) == [tag |-> "Value", val |-> v]
Ok(v) == [tag |-> "Ok", val |-> v]
Err(e) == [tag |-> "Err", err |-> e]
Panic(w) == [tag |-> "Panic", why |-> w]
None == [tag |-> "None"]
Some(v) == [tag |-> "Some", val |-> v]

\* &data[k..]: the slice from Rust index k to the end (k <= len)
SliceFrom(data, k) == SubSeq(data, k + 1, Len(data))
\* &data[a..b]: Rust indexes a (inclusive) to b (exclusive)
Slice(data, a, b) == SubSeq(data, a + 1, b)

(***************************************************************************)
(* TextError and TextEncoding.  An encoding is a tuple whose head is the   *)
(* variant's name: <<"Iso88595">>, <<"Reserved1", b>>, <<"Reserved2",h,l>>. *)
(***************************************************************************)
NotEnoughData(e, a) == [e |-> "NotEnoughData", expected |-> e, available |-> a]
DecodeFailure == [e |-> "DecodeFailure"]
UnsupportedEncoding(enc) == [e |-> "UnsupportedEncoding", enc |-> enc]

(***************************************************************************)
(* The charset decoders of the encoding_rs crate, which lib.rs calls.      *)
(* Decoded text is a sequence of characters.  A character is <<"U", c>>,   *)
(* the Unicode code point c, or <<cs, b>>: the character the index of the  *)
(* single-byte charset cs assigns to the byte b >= 0xA1 (the indexes       *)
(* themselves are data of encoding_rs and are not copied here), or         *)
(* <<"BIG5", p>>: the character the Big5 index assigns to the pointer p.   *)
(* Malformed marks one malformed byte sequence.                            *)
(***************************************************************************)
U(c) == <<"U", c>>
Malformed == <<"Malformed", 0>>
REPLACEMENT_CHARACTER == U(65533)

\* the bytes >= 0x80 that the charset's index leaves unassigned
Unmapped(cs) ==
    CASE cs = "ISO_8859_3" -> {165, 174, 190, 195, 208, 227, 240}
      [] cs = "ISO_8859_6" -> (161..255) \ ({164, 172, 173, 187, 191}
                                            \cup (193..218) \cup (224..242))
      [] cs = "ISO_8859_7" -> {174, 210, 255}
      [] cs = "ISO_8859_8" -> {161, 251, 252, 255} \cup (191..222)
      [] OTHER -> {}

\* a single-byte decoder: ASCII, the C1 controls and NBSP are the code
\* points of the same value in each of these charsets
SingleByteUnit(cs, b) ==
    IF b <= 160 THEN U(b)
    ELSE IF b \in Unmapped(cs) THEN Malformed
    ELSE <<cs, b>>

SingleByteUnits(cs, bytes) ==
    [i \in 1..Len(bytes) |-> SingleByteUnit(cs, bytes[i])]

\* the UTF-8 decoder of the Encoding Standard: rem continuation bytes are
\* still needed for the code point cp, the next one within lo..hi
RECURSIVE Utf8Units(_, _, _, _, _, _)
Utf8Units(b, i, rem, cp, lo, hi) ==
    IF i > Len(b) THEN (IF rem # 0 THEN <<Malformed>> ELSE <<>>)
    ELSE LET x == b[i] IN
      IF rem = 0 THEN
        IF x <= 127 THEN <<U(x)>> \o Utf8Units(b, i + 1, 0, 0, 128, 191)
        ELSE IF x \in 194..223 THEN Utf8Units(b, i + 1, 1, x % 32, 128, 191)
        ELSE IF x \in 224..239 THEN
            Utf8Units(b, i + 1, 2, x % 16,
                      IF x = 224 THEN 160 ELSE 128, IF x = 237 THEN 159 ELSE 191)
        ELSE IF x \in 240..244 THEN
            Utf8Units(b, i + 1, 3, x % 8,
                      IF x = 240 THEN 144 ELSE 128, IF x = 244 THEN 143 ELSE 191)
        ELSE <<Malformed>> \o Utf8Units(b, i + 1, 0, 0, 128, 191)
      ELSE IF x \notin lo..hi THEN
        \* the sequence ends here; the byte is decoded again as a first byte
        <<Malformed>> \o Utf8Units(b, i, 0, 0, 128, 191)
      ELSE IF rem = 1 THEN
        <<U(cp * 64 + (x % 64))>> \o Utf8Units(b, i + 1, 0, 0, 128, 191)
      ELSE Utf8Units(b, i + 1, rem - 1, cp * 64 + (x % 64), 128, 191)

\* the Big5 decoder of the Encoding Standard: lead is the pending lead byte
\* (0: none).  Pointers below 942 are not in the index; further holes of
\* the index are not enumerated.
Big5Pointer(lead, x) == (lead - 129) * 157 + (x - (IF x < 127 THEN 64 ELSE 98))

RECURSIVE Big5Units(_, _, _)
Big5Units(b, i, lead) ==
    IF i > Len(b) THEN (IF lead # 0 THEN <<Malformed>> ELSE <<>>)
    ELSE LET x == b[i] IN
      IF lead # 0 THEN
        IF (x \in 64..126 \/ x \in 161..254) /\ Big5Pointer(lead, x) >= 942
        THEN <<(<<"BIG5", Big5Pointer(lead, x)>>)>> \o Big5Units(b, i + 1, 0)
        ELSE IF x <= 127 THEN <<Malformed>> \o Big5Units(b, i, 0)
        ELSE <<Malformed>> \o Big5Units(b, i + 1, 0)
      ELSE IF x <= 127 THEN <<U(x)>> \o Big5Units(b, i + 1, 0)
      ELSE IF x \in 129..254 THEN Big5Units(b, i + 1, x)
      ELSE <<Malformed>> \o Big5Units(b, i + 1, 0)

\* what the decoder of charset cs makes of the bytes
DecodeUnits(cs, bytes) ==
    CASE cs = "UTF_8" -> Utf8Units(bytes, 1, 0, 0, 128, 191)
      [] cs = "BIG5" -> Big5Units(bytes, 1, 0)
      [] OTHER -> SingleByteUnits(cs, bytes)

HasMalformed(units) == \E i \in 1..Len(units) : units[i] = Malformed

\* encoding_rs::mem::decode_latin1: every byte is the code point of its value
decode_latin1(bytes) == [i \in 1..Len(bytes) |-> U(bytes[i])]

\* Encoding::decode_without_bom_handling_and_without_replacement: None when
\* a malformed sequence is met
decode_without_bom_handling_and_without_replacement(cs, bytes) ==
    LET units == DecodeUnits(cs, bytes) IN
    IF HasMalformed(units) THEN None ELSE Some(units)

\* Encoding::decode_without_bom_handling: (text, had_errors), each malformed
\* sequence replaced by U+FFFD
decode_without_bom_handling(cs, bytes) ==
    LET units == DecodeUnits(cs, bytes) IN
    << [i \in 1..Len(units) |->
            IF units[i] = Malformed THEN REPLACEMENT_CHARACTER ELSE units[i]],
       HasMalformed(units) >>

\* Option::ok_or
ok_or(opt, e) == IF opt.tag = "Some" THEN Ok(opt.val) ELSE Err(e)

\* Text::new without the check for an empty slice
Text_new_unchecked(data) == Ok([data |-> data])

(***************************************************************************)
(* Text (lib.rs)                                                           *)
(***************************************************************************)
\* Text::new
Text_new(data) ==
    IF Len(data) = 0 THEN Err(NotEnoughData(1, 0)) ELSE Ok([data |-> data])

\* encoding_ids matching on the second byte alone
encoding_ids_low_byte_only(h, l) ==
    IF l \in (1..15) \ {12}
    THEN << <<"Iso88591", "Iso88592", "Iso88593", "Iso88594", "Iso88595",
              "Iso88596", "Iso88597", "Iso88598", "Iso88599", "Iso885910",
              "Iso885911", "", "Iso885913", "Iso885914", "Iso885915">>[l] >>
    ELSE <<"Reserved2", h, l>>

\* the inner match of Text::encoding on (data[1], data[2])
encoding_ids(h, l) ==
    CASE h = 0 /\ l = 0 -> <<"Reserved2", h, l>>
      [] h = 0 /\ l = 1 -> <<"Iso88591">>
      [] h = 0 /\ l = 2 -> <<"Iso88592">>
      [] h = 0 /\ l = 3 -> <<"Iso88593">>
      [] h = 0 /\ l = 4 -> <<"Iso88594">>
      [] h = 0 /\ l = 5 -> <<"Iso88595">>
      [] h = 0 /\ l = 6 -> <<"Iso88596">>
      [] h = 0 /\ l = 7 -> <<"Iso88597">>
      [] h = 0 /\ l = 8 -> <<"Iso88598">>
      [] h = 0 /\ l = 9 -> <<"Iso88599">>
      [] h = 0 /\ l = 10 -> <<"Iso885910">>
      [] h = 0 /\ l = 11 -> <<"Iso885911">>
      [] h = 0 /\ l = 12 -> <<"Reserved2", h, l>>
      [] h = 0 /\ l = 13 -> <<"Iso885913">>
      [] h = 0 /\ l = 14 -> <<"Iso885914">>
      [] h = 0 /\ l = 15 -> <<"Iso885915">>
      [] OTHER -> <<"Reserved2", h, l>>

\* Text::encoding.  data is non-empty (Text::new); data[1] and data[2] are
\* indexed without a length check.
encoding(data) ==
    LET id == data[1] IN
    CASE id \in 32..255 -> Value(<<"Iso88591">>)
      [] id = 1 -> Value(<<"Iso88595">>)
      [] id = 2 -> Value(<<"Iso88596">>)
      [] id = 3 -> Value(<<"Iso88597">>)
      [] id = 4 -> Value(<<"Iso88598">>)
      [] id = 5 -> Value(<<"Iso88599">>)
      [] id = 6 -> Value(<<"Iso885910">>)
      [] id = 7 -> Value(<<"Iso885911">>)
      [] id = 8 -> Value(<<"Reserved1", id>>)
      [] id = 9 -> Value(<<"Iso885913">>)
      [] id = 10 -> Value(<<"Iso885914">>)
      [] id = 11 -> Value(<<"Iso885915">>)
      [] id \in 12..15 -> Value(<<"Reserved1", id>>)
      [] id = 16 ->
            IF Len(data) < 3 THEN Panic("index out of bounds")
            ELSE Value(encoding_ids(data[2], data[3]))
      [] id = 17 -> Value(<<"Iso10646">>)
      [] id = 18 -> Value(<<"KSX1001_2004">>)
      [] id = 19 -> Value(<<"GB2312_1980">>)
      [] id = 20 -> Value(<<"Big5">>)
      [] id = 21 -> Value(<<"UTF8">>)
      [] id \in 22..30 -> Value(<<"Reserved1", id>>)
      [] id = 31 -> Panic("not implemented: encoding_type_id")
      [] OTHER -> Panic("unreachable")

\* enc_prefix_len that does not skip a single-byte selector
enc_prefix_len_keeps_selector(data) ==
    LET id == data[1] IN
    CASE id \in 1..15 \/ id \in 17..30 -> Ok(0)
      [] id = 31 -> Ok(2)
      [] id = 16 ->
            IF Len(data) < 3 THEN Err(NotEnoughData(3, Len(data))) ELSE Ok(3)
      [] id \in 32..255 -> Ok(0)
      [] OTHER -> Panic("unreachable")

\* Text::enc_prefix_len
enc_prefix_len(data) ==
    LET id == data[1] IN
    CASE id \in 1..15 \/ id \in 17..30 -> Ok(1)
      [] id = 31 -> Ok(2)
      [] id = 16 ->
            IF Len(data) < 3 THEN Err(NotEnoughData(3, Len(data))) ELSE Ok(3)
      [] id \in 32..255 -> Ok(0)
      [] OTHER -> Panic("unreachable")

\* Text::buffer: the ? passes an error on; the slice panics past the end
buffer(data) ==
    LET k == enc_prefix_len(data) IN
    IF k.tag # "Ok" THEN k
    ELSE IF k.val > Len(data) THEN Panic("slice index out of range")
    ELSE Ok(SliceFrom(data, k.val))

\* an arm of to_string / to_string_with_replacement that decodes: the
\* buffer()? and then the decoder on it.  [res, fed]: the call's result and
\* the slices handed to the decoder.
latin1_arm(data) ==
    LET b == buffer(data) IN
    IF b.tag # "Ok" THEN [res |-> b, fed |-> <<>>]
    ELSE [res |-> Ok(decode_latin1(b.val)), fed |-> <<b.val>>]

strict_arm(cs, data) ==
    LET b == buffer(data) IN
    IF b.tag # "Ok" THEN [res |-> b, fed |-> <<>>]
    ELSE [res |-> ok_or(decode_without_bom_handling_and_without_replacement(cs, b.val),
                        DecodeFailure),
          fed |-> <<b.val>>]

\* a replace arm that reports had_errors as a failure
replace_arm_fails_on_errors(cs, data) ==
    LET b == buffer(data) IN
    IF b.tag # "Ok" THEN [res |-> b, fed |-> <<>>]
    ELSE IF decode_without_bom_handling(cs, b.val)[2]
    THEN [res |-> Err(DecodeFailure), fed |-> <<b.val>>]
    ELSE [res |-> Ok(decode_without_bom_handling(cs, b.val)[1]), fed |-> <<b.val>>]

replace_arm(cs, data) ==
    LET b == buffer(data) IN
    IF b.tag # "Ok" THEN [res |-> b, fed |-> <<>>]
    ELSE [res |-> Ok(decode_without_bom_handling(cs, b.val)[1]), fed |-> <<b.val>>]

\* an unsupported arm that reports the wrong error
unsupported_arm_as_failure(enc) == [res |-> Err(DecodeFailure), fed |-> <<>>]

unsupported_arm(enc) == [res |-> Err(UnsupportedEncoding(enc)), fed |-> <<>>]

\* Text::to_string
to_string(data) ==
    LET e == encoding(data) IN
    IF e.tag = "Panic" THEN [res |-> e, fed |-> <<>>]
    ELSE LET enc == e.val IN
    CASE enc[1] = "Iso88591" -> latin1_arm(data)
      [] enc[1] = "Iso88592" -> strict_arm("ISO_8859_2", data)
      [] enc[1] = "Iso88593" -> strict_arm("ISO_8859_3", data)
      [] enc[1] = "Iso88594" -> strict_arm("ISO_8859_4", data)
      [] enc[1] = "Iso88595" -> strict_arm("ISO_8859_5", data)
      [] enc[1] = "Iso88596" -> strict_arm("ISO_8859_6", data)
      [] enc[1] = "Iso88597" -> strict_arm("ISO_8859_7", data)
      [] enc[1] = "Iso88598" -> strict_arm("ISO_8859_8", data)
      [] enc[1] = "Iso88599" -> unsupported_arm(enc)
      [] enc[1] = "Iso885910" -> strict_arm("ISO_8859_10", data)
      [] enc[1] = "Iso885911" -> unsupported_arm(enc)
      [] enc[1] = "Iso885913" -> strict_arm("ISO_8859_13", data)
      [] enc[1] = "Iso885914" -> strict_arm("ISO_8859_14", data)
      [] enc[1] = "Iso885915" -> strict_arm("ISO_8859_15", data)
      [] enc[1] = "Reserved1" -> unsupported_arm(enc)
      [] enc[1] = "Reserved2" -> unsupported_arm(enc)
      [] enc[1] = "Iso10646" -> unsupported_arm(enc)
      [] enc[1] = "KSX1001_2004" -> unsupported_arm(enc)
      [] enc[1] = "GB2312_1980" -> unsupported_arm(enc)
      [] enc[1] = "Big5" -> strict_arm("BIG5", data)
      [] enc[1] = "UTF8" -> strict_arm("UTF_8", data)

\* Text::to_string_with_replacement
to_string_with_replacement(data) ==
    LET e == encoding(data) IN
    IF e.tag = "Panic" THEN [res |-> e, fed |-> <<>>]
    ELSE LET enc == e.val IN
    CASE enc[1] = "Iso88591" -> latin1_arm(data)
      [] enc[1] = "Iso88592" -> replace_arm("ISO_8859_2", data)
      [] enc[1] = "Iso88593" -> replace_arm("ISO_8859_3", data)
      [] enc[1] = "Iso88594" -> replace_arm("ISO_8859_4", data)
      [] enc[1] = "Iso88595" -> replace_arm("ISO_8859_5", data)
      [] enc[1] = "Iso88596" -> replace_arm("ISO_8859_6", data)
      [] enc[1] = "Iso88597" -> replace_arm("ISO_8859_7", data)
      [] enc[1] = "Iso88598" -> replace_arm("ISO_8859_8", data)
      [] enc[1] = "Iso88599" -> unsupported_arm(enc)
      [] enc[1] = "Iso885910" -> replace_arm("ISO_8859_10", data)
      [] enc[1] = "Iso885911" -> unsupported_arm(enc)
      [] enc[1] = "Iso885913" -> replace_arm("ISO_8859_13", data)
      [] enc[1] = "Iso885914" -> replace_arm("ISO_8859_14", data)
      [] enc[1] = "Iso885915" -> replace_arm("ISO_8859_15", data)
      [] enc[1] = "Reserved1" -> unsupported_arm(enc)
      [] enc[1] = "Reserved2" -> unsupported_arm(enc)
      [] enc[1] = "Iso10646" -> unsupported_arm(enc)
      [] enc[1] = "KSX1001_2004" -> unsupported_arm(enc)
      [] enc[1] = "GB2312_1980" -> unsupported_arm(enc)
      [] enc[1] = "Big5" -> replace_arm("BIG5", data)
      [] enc[1] = "UTF8" -> replace_arm("UTF_8", data)

(***************************************************************************)
(* ServiceType and ServiceDescriptor (sdt.rs)                              *)
(***************************************************************************)
\* ServiceType::from_id
from_id(id) ==
    CASE id = 0 -> <<"Reserved", id>>
      [] id = 1 -> <<"DigitalTelevision">>
      [] id = 2 -> <<"DigitalRadioSound">>
      [] id = 3 -> <<"Teletext">>
      [] id = 4 -> <<"NvodReference">>
      [] id = 5 -> <<"NvodTimeShifted">>
      [] id = 6 -> <<"Mosaic">>
      [] id = 7 -> <<"FmRadio">>
      [] id = 8 -> <<"DvbSrm">>
      [] id = 9 -> <<"Reserved", id>>
      [] id = 10 -> <<"AdvancedCodecDigitalRadioSound">>
      [] id = 11 -> <<"H264AvcMosaic">>
      [] id = 12 -> <<"DataBroadcast">>
      [] id = 13 -> <<"Reserved", id>>
      [] id = 14 -> <<"RcsMap">>
      [] id = 15 -> <<"RcsFls">>
      [] id = 16 -> <<"DvbMhp">>
      [] id = 17 -> <<"Mpeg2HdDigitalTelevision">>
      [] id \in 18..21 -> <<"Reserved", id>>
      [] id = 22 -> <<"H264AvcSdDigitalTelevision">>
      [] id = 23 -> <<"H264AvcSdNvodTimeShifted">>
      [] id = 24 -> <<"H264AvcSdNvodReference">>
      [] id = 25 -> <<"H264AvcHdDigitalTelevision">>
      [] id = 26 -> <<"H264AvcHdNvodTimeShifted">>
      [] id = 27 -> <<"H264AvcHdNvodReference">>
      [] id = 28 -> <<"H264AvcFrameCompatiblePlanoStereoscopicHdDigitalTelevision">>
      [] id = 29 -> <<"H264AvcFrameCompatiblePlanoStereoscopicHdNvodTimeShifted">>
      [] id = 30 -> <<"H264AvcFrameCompatiblePlanoStereoscopicHdNvodReference">>
      [] id = 31 -> <<"HevcDigitalTelevision">>
      [] id \in 32..127 -> <<"Reserved", id>>
      [] id \in 128..254 -> <<"UserDefined", id>>
      [] id = 255 -> <<"Reserved", id>>
      [] OTHER -> <<"unreachable">>

\* ServiceDescriptor::TAG
TAG == 72

\* ServiceDescriptor::new
ServiceDescriptor_new(tag, data) ==
    IF tag # TAG THEN Panic("assertion failed: tag == TAG")
    ELSE Ok([data |-> data])

\* ServiceDescriptor::service_type: data[0] is indexed without a check
service_type(data) ==
    IF Len(data) < 1 THEN Panic("index out of bounds")
    ELSE LET t == from_id(data[1]) IN
         IF t = <<"unreachable">> THEN Panic("unreachable") ELSE Value(t)

\* ServiceDescriptor::service_provider_name: data[1] is indexed without a
\* check
service_provider_name(data) ==
    IF Len(data) < 2 THEN Panic("index out of bounds")
    ELSE LET service_provider_name_length == data[2]
             end == 2 + service_provider_name_length
         IN  IF end > Len(data) THEN Err(NotEnoughData(end, Len(data)))
             ELSE Text_new(Slice(data, 2, end))

\* service_name that takes the length byte for the first byte of the name
service_name_off_by_one(data) ==
    IF Len(data) < 2 THEN Panic("index out of bounds")
    ELSE LET service_provider_name_length == data[2]
             start == 2 + service_provider_name_length
         IN  IF start >= Len(data) THEN Panic("index out of bounds")
             ELSE LET service_name_length == data[start + 1]
                      end == 1 + start + service_name_length
                  IN  IF end > Len(data) THEN Err(NotEnoughData(end, Len(data)))
                      ELSE Text_new(Slice(data, start, end))

\* ServiceDescriptor::service_name: data[1] and data[start] are indexed
\* without a check
service_name(data) ==
    IF Len(data) < 2 THEN Panic("index out of bounds")
    ELSE LET service_provider_name_length == data[2]
             start == 2 + service_provider_name_length
         IN  IF start >= Len(data) THEN Panic("index out of bounds")
             ELSE LET service_name_length == data[start + 1]
                      end == 1 + start + service_name_length
                  IN  IF end > Len(data) THEN Err(NotEnoughData(end, Len(data)))
                      ELSE Text_new(Slice(data, 1 + start, end))

(***************************************************************************)
(* En300_468Descriptors (lib.rs): the arms of descriptor_enum!, in source  *)
(* order.  The macro (of the mpeg2ts_reader crate) turns them into one     *)
(* match on the tag, arm by arm, each arm calling its type's new(tag,      *)
(* payload), with a last arm `_ => Err(UnhandledTagValue(tag))`.           *)
(***************************************************************************)
\* an arm whose ranges are written a..b where a..=b is meant: the last tag of
\* a pattern of several tags is lost
Arm_exclusive_range(name, tags, t) ==
    [name |-> name,
     tags |-> IF Cardinality(tags) > 1
              THEN tags \ {CHOOSE m \in tags : \A x \in tags : x <= m}
              ELSE tags,
     t |-> t]

Arm(name, tags, t) == [name |-> name, tags |-> tags, t |-> t]

En300_468Descriptors == <<
    Arm("Reserved", {0, 1} \cup (36..63), "UnknownDescriptor"),
    Arm("VideoStream", {2}, "UnknownDescriptor"),
    Arm("AudioStream", {3}, "UnknownDescriptor"),
    Arm("Hierarchy", {4}, "UnknownDescriptor"),
    Arm("Registration", {5}, "UnknownDescriptor"),
    Arm("DataStreamAlignment", {6}, "UnknownDescriptor"),
    Arm("TargetBackgroundGrid", {7}, "UnknownDescriptor"),
    Arm("VideoWindow", {8}, "UnknownDescriptor"),
    Arm("CA", {9}, "UnknownDescriptor"),
    Arm("ISO639Language", {10}, "UnknownDescriptor"),
    Arm("SystemClock", {11}, "UnknownDescriptor"),
    Arm("MultiplexBufferUtilization", {12}, "UnknownDescriptor"),
    Arm("Copyright", {13}, "UnknownDescriptor"),
    Arm("MaximumBitrate", {14}, "UnknownDescriptor"),
    Arm("PrivateDataIndicator", {15}, "UnknownDescriptor"),
    Arm("SmoothingBuffer", {16}, "UnknownDescriptor"),
    Arm("STD", {17}, "UnknownDescriptor"),
    Arm("IBP", {18}, "UnknownDescriptor"),
    Arm("IsoIec13818dash6", 19..26, "UnknownDescriptor"),
    Arm("MPEG4Video", {27}, "UnknownDescriptor"),
    Arm("MPEG4Audio", {28}, "UnknownDescriptor"),
    Arm("IOD", {29}, "UnknownDescriptor"),
    Arm("SL", {30}, "UnknownDescriptor"),
    Arm("FMC", {31}, "UnknownDescriptor"),
    Arm("ExternalESID", {32}, "UnknownDescriptor"),
    Arm("MuxCode", {33}, "UnknownDescriptor"),
    Arm("FmxBufferSize", {34}, "UnknownDescriptor"),
    Arm("MultiplexBuffer", {35}, "UnknownDescriptor"),
    Arm("UserPrivate", (69..70) \cup (103..254), "UnknownDescriptor"),
    Arm("NetworkName", {64}, "UnknownDescriptor"),
    Arm("ServiceList", {65}, "UnknownDescriptor"),
    Arm("Stuffing", {66}, "UnknownDescriptor"),
    Arm("SatelliteDeliverySystem", {67}, "UnknownDescriptor"),
    Arm("CableDeliverySystem", {68}, "UnknownDescriptor"),
    Arm("BouquetName", {71}, "UnknownDescriptor"),
    Arm("Service", {TAG}, "ServiceDescriptor"),
    Arm("CountryAvailability", {73}, "UnknownDescriptor"),
    Arm("Linkage", {74}, "UnknownDescriptor"),
    Arm("NvodReference", {75}, "UnknownDescriptor"),
    Arm("TimeShiftedService", {76}, "UnknownDescriptor"),
    Arm("ShortEvent", {77}, "UnknownDescriptor"),
    Arm("ExtendedEvent", {78}, "UnknownDescriptor"),
    Arm("TimeShiftedEvent", {79}, "UnknownDescriptor"),
    Arm("Component", {80}, "UnknownDescriptor"),
    Arm("Mosaic", {81}, "UnknownDescriptor"),
    Arm("StreamIdentifier", {82}, "UnknownDescriptor"),
    Arm("CaIdentifier", {83}, "UnknownDescriptor"),
    Arm("Content", {84}, "UnknownDescriptor"),
    Arm("ParentalRating", {85}, "UnknownDescriptor"),
    Arm("Teletext", {86}, "UnknownDescriptor"),
    Arm("Telephone", {87}, "UnknownDescriptor"),
    Arm("LocalTimeOffset", {88}, "UnknownDescriptor"),
    Arm("Subtitling", {89}, "UnknownDescriptor"),
    Arm("TerrestrialDeliverySystem", {90}, "UnknownDescriptor"),
    Arm("MultilingualNetworkName", {91}, "UnknownDescriptor"),
    Arm("MultilingualBouquetName", {92}, "UnknownDescriptor"),
    Arm("MultilingualServiceName", {93}, "UnknownDescriptor"),
    Arm("MultilingualComponent", {94}, "UnknownDescriptor"),
    Arm("PrivateDataSpecifier", {95}, "UnknownDescriptor"),
    Arm("ServiceMove", {96}, "UnknownDescriptor"),
    Arm("ShortSmoothingBuffer", {97}, "UnknownDescriptor"),
    Arm("FrequencyList", {98}, "UnknownDescriptor"),
    Arm("PartialTransportStream", {99}, "UnknownDescriptor"),
    Arm("DataBroadcast", {100}, "UnknownDescriptor"),
    Arm("CaSystem", {101}, "UnknownDescriptor"),
    Arm("DataBroadcastId", {102}, "UnknownDescriptor"),
    Arm("Forbidden", {255}, "UnknownDescriptor") >>

\* the arms whose pattern the tag matches
MatchingArms(tag) ==
    {i \in 1..Len(En300_468Descriptors) : tag \in En300_468Descriptors[i].tags}

\* UnknownDescriptor::new (mpeg2ts_reader): keeps the tag and the payload
UnknownDescriptor_new(tag, payload) == Ok([tag |-> tag, payload |-> payload])

\* the match on the tag that descriptor_enum! generates: the first arm that
\* matches is taken
dispatch(tag, payload) ==
    LET hits == MatchingArms(tag) IN
    IF hits = {} THEN Err([e |-> "UnhandledTagValue", tag |-> tag])
    ELSE LET i == CHOOSE j \in hits : \A k \in hits : j <= k
             arm == En300_468Descriptors[i]
             made == IF arm.t = "ServiceDescriptor"
                     THEN ServiceDescriptor_new(tag, payload)
                     ELSE UnknownDescriptor_new(tag, payload)
         IN  IF made.tag = "Ok"
             THEN Ok([variant |-> arm.name, t |-> arm.t, inner |-> made.val])
             ELSE made

(***************************************************************************)
(* Service and ServiceIterator (sdt.rs)                                    *)
(***************************************************************************)
\* Service::new
Service_new(data) == [data |-> data]

\* next that takes the loop length for the size of the record
next_without_header(rd) ==
    IF Len(rd) = 0
    THEN [res |-> Value(None), rem |-> rd]
    ELSE IF Len(rd) < 5
    THEN [res |-> Panic("index out of bounds"), rem |-> rd]
    ELSE LET descriptors_loop_length == (((rd[4] % 16) * 256) % 65536) + rd[5]
             size == descriptors_loop_length
         IN  IF size > Len(rd)
             THEN [res |-> Panic("split_at: mid > len"), rem |-> rd]
             ELSE [res |-> Value(Some(Service_new(Slice(rd, 0, size)))),
                   rem |-> SliceFrom(rd, size)]

\* ServiceIterator::next on the remaining data rd: [res, rem], the call's
\* result and the new remaining_data.  The length is computed in u16.
next(rd) ==
    IF Len(rd) = 0
    THEN [res |-> Value(None), rem |-> rd]
    ELSE IF Len(rd) < 5
    THEN [res |-> Panic("index out of bounds"), rem |-> rd]
    ELSE LET descriptors_loop_length == (((rd[4] % 16) * 256) % 65536) + rd[5]
             size == (5 + descriptors_loop_length) % 65536
         IN  IF size > Len(rd)
             THEN [res |-> Panic("split_at: mid > len"), rem |-> rd]
             ELSE [res |-> Value(Some(Service_new(Slice(rd, 0, size)))),
                   rem |-> SliceFrom(rd, size)]

(***************************************************************************)
(* Bit operations on unsigned integers                                     *)
(***************************************************************************)
RECURSIVE BitAnd(_, _)
BitAnd(a, b) ==
    IF a = 0 \/ b = 0 THEN 0
    ELSE (a % 2) * (b % 2) + 2 * BitAnd(a \div 2, b \div 2)

RECURSIVE BitOr(_, _)
BitOr(a, b) ==
    IF a = 0 THEN b
    ELSE IF b = 0 THEN a
    ELSE (IF a % 2 = 1 \/ b % 2 = 1 THEN 1 ELSE 0) + 2 * BitOr(a \div 2, b \div 2)

\* a << n and a >> n
Shl(a, n) == a * (2 ^ n)
Shr(a, n) == a \div (2 ^ n)

(***************************************************************************)
(* RunningStatus and the accessors of Service (sdt.rs).  data[i] is        *)
(* indexed without a check in each accessor.                               *)
(***************************************************************************)
\* RunningStatus::from_id
running_status_from_id(id) ==
    CASE id = 0 -> Value(<<"Undefined">>)
      [] id = 1 -> Value(<<"NotRunning">>)
      [] id = 2 -> Value(<<"StartsInAFewSeconds">>)
      [] id = 3 -> Value(<<"Pausing">>)
      [] id = 4 -> Value(<<"Running">>)
      [] id = 5 -> Value(<<"ServiceOffAir">>)
      [] id \in 6..7 -> Value(<<"Reserved", id>>)
      [] OTHER -> Panic("Invalid running_status value (must be between 0 and 7)")

\* Service::service_id, in u16
service_id(data) ==
    IF Len(data) < 2 THEN Panic("index out of bounds")
    ELSE Value(BitOr(Shl(data[1], 8) % 65536, data[2]))

\* Service::eit_schedule_flag
eit_schedule_flag(data) ==
    IF Len(data) < 3 THEN Panic("index out of bounds")
    ELSE Value(BitAnd(data[3], 2) # 0)

\* Service::eit_present_following_flag
eit_present_following_flag(data) ==
    IF Len(data) < 3 THEN Panic("index out of bounds")
    ELSE Value(BitAnd(data[3], 1) # 0)

\* Service::running_status
running_status(data) ==
    IF Len(data) < 4 THEN Panic("index out of bounds")
    ELSE running_status_from_id(Shr(data[4], 5))

\* free_ca_mode reading bit 5, the lowest bit of the running status
free_ca_mode_bit5(data) ==
    IF Len(data) < 4 THEN Panic("index out of bounds")
    ELSE Value(BitAnd(Shr(data[4], 5), 1) # 0)

\* Service::free_ca_mode: (data[3] >> 4) & 1 != 0
free_ca_mode(data) ==
    IF Len(data) < 4 THEN Panic("index out of bounds")
    ELSE Value(BitAnd(Shr(data[4], 4), 1) # 0)

\* descriptors_loop_length with a 3-bit mask on byte 3
descriptors_loop_length_mask7(data) ==
    IF Len(data) < 5 THEN Panic("index out of bounds")
    ELSE Value(BitOr(Shl(BitAnd(data[4], 7), 8), data[5]))

\* Service::descriptors_loop_length, in usize
descriptors_loop_length(data) ==
    IF Len(data) < 5 THEN Panic("index out of bounds")
    ELSE Value(BitOr(Shl(BitAnd(data[4], 15), 8), data[5]))

\* DescriptorIter::new (mpeg2ts_reader): an iterator over the slice
DescriptorIter_new(buf) == [buf |-> buf]

\* Service::descriptors: the slice data[5..5 + loop length] panics past the
\* end
descriptors(data) ==
    LET l == descriptors_loop_length(data) IN
    IF l.tag = "Panic" THEN l
    ELSE LET start == 5
             end == start + l.val
         IN  IF end > Len(data) THEN Panic("slice index out of range")
             ELSE Value(DescriptorIter_new(Slice(data, start, end)))

(***************************************************************************)
(* SdtSection (sdt.rs)                                                     *)
(***************************************************************************)
\* SdtSection::new accepting three bytes
SdtSection_new_at_least_3(data) ==
    IF ~(Len(data) >= 3) THEN Panic("assertion failed: data.len() >= 3")
    ELSE Value([data |-> data])

\* SdtSection::new
SdtSection_new(data) ==
    IF ~(Len(data) > 3) THEN Panic("assertion failed: data.len() > 3")
    ELSE Value([data |-> data])

\* SdtSection::buffer
section_buffer(data) == Value(data)

\* SdtSection::original_network_id, in u16; the section holds more than 3
\* bytes
original_network_id(data) == Value(BitOr(Shl(data[1], 8) % 65536, data[2]))

\* SdtSection::services: ServiceIterator::new(&self.data[3..]), the new
\* iterator's remaining_data
services(data) == SliceFrom(data, 3)

(***************************************************************************)
(* ActualOther (lib.rs) and SdtProcessor (sdt.rs)                          *)
(***************************************************************************)
Actual(v) == [variant |-> "Actual", v |-> v]
Other(v) == [variant |-> "Other", v |-> v]

\* ActualOther::actual
actual(x) == IF x.variant = "Actual" THEN Some(x.v) ELSE None

\* ActualOther::other
other(x) == IF x.variant = "Actual" THEN None ELSE Some(x.v)

\* psi::SectionCommonHeader::SIZE and psi::TableSyntaxHeader::SIZE
\* (mpeg2ts_reader)
SectionCommonHeader_SIZE == 3
TableSyntaxHeader_SIZE == 5

\* section that keeps the CRC bytes in the view
section_keeps_crc(header, data) ==
    LET start == SectionCommonHeader_SIZE + TableSyntaxHeader_SIZE IN
    IF start > Len(data) THEN [res |-> Panic("slice index starts past its end"), consumed |-> <<>>]
    ELSE LET sect == SdtSection_new(Slice(data, start, Len(data))) IN
    IF sect.tag = "Panic" THEN [res |-> sect, consumed |-> <<>>]
    ELSE CASE header.table_id = 66 ->
                  [res |-> Value("()"), consumed |-> <<Actual(sect.val)>>]
           [] header.table_id = 70 ->
                  [res |-> Value("()"), consumed |-> <<Other(sect.val)>>]
           [] OTHER -> [res |-> Value("()"), consumed |-> <<>>]

\* section that routes both table ids to Actual
section_all_actual(header, data) ==
    LET start == SectionCommonHeader_SIZE + TableSyntaxHeader_SIZE IN
    IF Len(data) < 4 THEN [res |-> Panic("attempt to subtract with overflow"), consumed |-> <<>>]
    ELSE LET end == Len(data) - 4 IN
    IF start > end THEN [res |-> Panic("slice index starts past its end"), consumed |-> <<>>]
    ELSE LET sect == SdtSection_new(Slice(data, start, end)) IN
    IF sect.tag = "Panic" THEN [res |-> sect, consumed |-> <<>>]
    ELSE CASE header.table_id \in {66, 70} ->
                  [res |-> Value("()"), consumed |-> <<Actual(sect.val)>>]
           [] OTHER -> [res |-> Value("()"), consumed |-> <<>>]

\* SdtProcessor::section: [res, consumed], how the call ends and the values
\* the consumer was called with.  The section view is made before the table
\* id is looked at; an unexpected table id is logged.
section(header, data) ==
    LET start == SectionCommonHeader_SIZE + TableSyntaxHeader_SIZE IN
    IF Len(data) < 4 THEN [res |-> Panic("attempt to subtract with overflow"), consumed |-> <<>>]
    ELSE LET end == Len(data) - 4 IN
    IF start > end THEN [res |-> Panic("slice index starts past its end"), consumed |-> <<>>]
    ELSE LET sect == SdtSection_new(Slice(data, start, end)) IN
    IF sect.tag = "Panic" THEN [res |-> sect, consumed |-> <<>>]
    ELSE CASE header.table_id = 66 ->
                  [res |-> Value("()"), consumed |-> <<Actual(sect.val)>>]
           [] header.table_id = 70 ->
                  [res |-> Value("()"), consumed |-> <<Other(sect.val)>>]
           [] OTHER -> [res |-> Value("()"), consumed |-> <<>>]

(***************************************************************************)
(* impl fmt::Debug: what is rendered, or the panic of a call made while    *)
(* rendering                                                               *)
(***************************************************************************)
\* impl fmt::Debug for Text (lib.rs)
fmt_Text(data) ==
    LET r == to_string_with_replacement(data).res IN
    IF r.tag = "Panic" THEN r ELSE Value([debug |-> r])

\* Debug of a Result<Text, TextError>: the Text's Debug, or the error
fmt_Result_Text(r) ==
    IF r.tag = "Ok" THEN fmt_Text(r.val.data) ELSE Value([debug |-> r])

\* impl fmt::Debug for ServiceDescriptor (sdt.rs): the three fields in turn
fmt_ServiceDescriptor(data) ==
    LET t == service_type(data) IN
    IF t.tag = "Panic" THEN t
    ELSE LET p == service_provider_name(data) IN
    IF p.tag = "Panic" THEN p
    ELSE LET fp == fmt_Result_Text(p) IN
    IF fp.tag = "Panic" THEN fp
    ELSE LET n == service_name(data) IN
    IF n.tag = "Panic" THEN n
    ELSE LET fn == fmt_Result_Text(n) IN
    IF fn.tag = "Panic" THEN fn
    ELSE Value([debug |-> <<t.val, fp.val.debug, fn.val.debug>>])

(***************************************************************************)
(* The buffers the objects are constructed over.                           *)
(***************************************************************************)
SeqsUpTo(S, n) == UNION {[1..k -> S] : k \in 0..n}

RECURSIVE Flatten(_)
Flatten(ss) == IF ss = <<>> THEN <<>> ELSE Head(ss) \o Flatten(Tail(ss))

\* the UTF-8 bytes of a Rust string whose chars are the code points s
Utf8EncodeChar(c) ==
    IF c < 128 THEN <<c>>
    ELSE IF c < 2048 THEN <<192 + (c \div 64), 128 + (c % 64)>>
    ELSE IF c < 65536 THEN
        <<224 + (c \div 4096), 128 + ((c \div 64) % 64), 128 + (c % 64)>>
    ELSE <<240 + (c \div 262144), 128 + ((c \div 4096) % 64),
           128 + ((c \div 64) % 64), 128 + (c % 64)>>

Utf8Encode(s) == Flatten([i \in 1..Len(s) |-> Utf8EncodeChar(s[i])])

\* payload bytes: 'A'; 0xA4 and 0xAE (a UTF-8 continuation byte, a Big5 lead
\* or trail byte; 0xAE unassigned in ISO 8859-3, -6 and -7); 0xC3 (a UTF-8
\* lead byte, unassigned in ISO 8859-3); 0xFF (malformed in UTF-8 and Big5)
PayloadBytes == {65, 164, 174, 195, 255}
MaxPayload == 2
Payloads == SeqsUpTo(PayloadBytes, MaxPayload)

\* the two bytes that follow the selector 0x10
SelectorPairs == Byte \X Byte

\* strings for the UTF-8 fields: A, e-acute, the euro sign, U+1F600
SampleChars == {65, 233, 8364, 128512}
MaxChars == 2
SampleStrings == SeqsUpTo(SampleChars, MaxChars)

\* the data of a Text (non-empty: Text::new refuses the empty slice)
TextInputs ==
    {<<b>> \o p : b \in Byte, p \in Payloads}
    \cup {<<16, hl[1], hl[2]>> : hl \in SelectorPairs}
    \cup {<<16, 0, l>> \o p : l \in 0..16, p \in Payloads}
    \cup {<<21>> \o Utf8Encode(s) : s \in SampleStrings}

\* the payload of a Service Descriptor: [type, p, P_1..P_p, s, S_1..S_s]
WellFormedPayload(t, P, S) == <<t, Len(P)>> \o P \o <<Len(S)>> \o S
NameSamples == {<<65>>, <<65, 66, 67>>, <<88, 89>>, <<21, 195, 164>>, <<5, 65>>}
DescriptorBytes == {0, 1, 2, 65, 255}
MaxRaw == 4

DescriptorInputs ==
    {WellFormedPayload(t, <<65, 66, 67>>, <<88, 89>>) : t \in Byte}
    \cup {WellFormedPayload(t, P, S) : t \in {1, 128}, P \in NameSamples, S \in NameSamples}
    \cup SeqsUpTo(DescriptorBytes, MaxRaw)

\* descriptor payloads handed to the tag dispatch
DispatchPayloads == {<<>>, <<1, 3, 65, 66, 67, 2, 88, 89>>, <<255>>}

\* service records: 5 bytes and a descriptor loop of the length the low 4
\* bits of byte 3 and byte 4 declare (0, 1, 2, 10 and 256 bytes)
RecordSamples == {
    <<16, 67, 255, 128, 0>>,
    <<16, 191, 252, 144, 1, 72>>,
    <<17, 192, 253, 128, 2, 72, 0>>,
    <<18, 0, 255, 128, 10, 72, 8, 1, 3, 65, 66, 67, 2, 88, 89>>,
    <<18, 64, 254, 129, 0>> \o [i \in 1..256 |-> 0] }
MaxRecords == 3
RecordLists == SeqsUpTo(RecordSamples, MaxRecords)

\* buffers that need not be a sequence of records
IterBytes == {0, 1}
MaxIterRaw == 6

\* a record with the five given header bytes and as many descriptor bytes as
\* they declare
Rec(b0, b1, b2, b3, b4) ==
    <<b0, b1, b2, b3, b4>> \o [i \in 1..((b3 % 16) * 256 + b4) |-> 0]

\* single records in which each header byte takes every value
FieldRecords ==
    {Rec(b0, b1, 252, 128, 0) : b0 \in {0, 18, 255}, b1 \in {0, 52, 255}}
    \cup {Rec(18, 52, b2, 128, 0) : b2 \in Byte}
    \cup {Rec(18, 52, 252, b3, b4) : b3 \in Byte, b4 \in {0, 255}}
    \cup {Rec(18, 52, 252, 128, b4) : b4 \in Byte}

\* section bodies: original_network_id, a reserved byte, the service loop
SectionHeads == {<<35, 58, 255>>, <<0, 0, 0>>, <<255, 255, 255>>}
MaxSectionRecords == 2
MaxSectionRaw == 5
SectionBodies ==
    SeqsUpTo({0, 35, 255}, 3)
    \cup {h \o Flatten(rs) : h \in SectionHeads,
                             rs \in SeqsUpTo(RecordSamples, MaxSectionRecords)}
    \cup {h \o d : h \in SectionHeads, d \in SeqsUpTo(IterBytes, MaxSectionRaw)}

\* whole sections as the framework delivers them: common header (table id
\* first), table syntax header, body, CRC
CrcBytes == <<193, 194, 195, 196>>
Section(t, body) == <<t, 240, 0>> \o <<0, 1, 193, 0, 0>> \o body \o CrcBytes
RouterTableIds == {66, 70, 0, 74}
RouterBodies == {<<>>, <<35, 58, 255>>, <<35, 58, 255, 0>>,
                 <<35, 58, 255, 16, 67, 255, 128, 0>>}
SectionInputs ==
    {[table_id |-> t, data |-> Section(t, b)] : t \in RouterTableIds, b \in RouterBodies}
MaxSections == 3

\* slices handed to Text::new
MaxSlice == 2
SliceInputs == SeqsUpTo(PayloadBytes \cup {0, 16, 31}, MaxSlice)

(***************************************************************************)
(* Init: one object is constructed.  recs are the records a service        *)
(* buffer was concatenated from (<<>> and wf = FALSE for a raw buffer).    *)
(***************************************************************************)
NoCall == [tag |-> "NoCall"]

Init ==
    /\ \/ \E d \in TextInputs : obj = [kind |-> "Text", data |-> d]
       \/ \E d \in DescriptorInputs : obj = [kind |-> "ServiceDescriptor", data |-> d]
       \/ \E t \in Byte, d \in DispatchPayloads :
              obj = [kind |-> "Descriptor", tag |-> t, data |-> d]
       \/ \E rs \in RecordLists :
              obj = [kind |-> "ServiceIterator", data |-> Flatten(rs),
                     wf |-> TRUE, recs |-> rs]
       \/ \E d \in SeqsUpTo(IterBytes, MaxIterRaw) :
              obj = [kind |-> "ServiceIterator", data |-> d,
                     wf |-> FALSE, recs |-> <<>>]
       \/ \E r \in FieldRecords :
              obj = [kind |-> "ServiceIterator", data |-> r,
                     wf |-> TRUE, recs |-> <<r>>]
       \* a slice, before SdtSection::new or Text::new is called on it
       \/ \E d \in SectionBodies :
              obj = [kind |-> "SdtSection", data |-> d, made |-> FALSE, iter |-> FALSE]
       \/ \E d \in SliceInputs : obj = [kind |-> "Slice", data |-> d]
       \/ \E id \in Byte : obj = [kind |-> "u8", id |-> id]
       \/ obj = [kind |-> "SdtProcessor"]
    /\ call = "none"
    /\ ret = NoCall
    /\ fed = <<>>
    \* ServiceIterator::new
    /\ remaining_data = IF obj.kind = "ServiceIterator" THEN obj.data ELSE <<>>
    /\ yielded = <<>>
    /\ delivered = <<>>
    /\ consumed = <<>>

\* a call that panicked has ended the thread: nothing is called after it
Alive == ret.tag # "Panic"

(***************************************************************************)
(* The calls                                                               *)
(***************************************************************************)
Text_encoding ==
    /\ Alive /\ obj.kind = "Text"
    /\ call' = "encoding"
    /\ ret' = encoding(obj.data)
    /\ fed' = <<>>
    /\ UNCHANGED <<delivered, consumed, obj, remaining_data, yielded>>

Text_to_string ==
    /\ Alive /\ obj.kind = "Text"
    /\ call' = "to_string"
    /\ LET r == to_string(obj.data) IN ret' = r.res /\ fed' = r.fed
    /\ UNCHANGED <<delivered, consumed, obj, remaining_data, yielded>>

Text_to_string_with_replacement ==
    /\ Alive /\ obj.kind = "Text"
    /\ call' = "to_string_with_replacement"
    /\ LET r == to_string_with_replacement(obj.data) IN ret' = r.res /\ fed' = r.fed
    /\ UNCHANGED <<delivered, consumed, obj, remaining_data, yielded>>

ServiceDescriptor_service_type ==
    /\ Alive /\ obj.kind = "ServiceDescriptor"
    /\ call' = "service_type"
    /\ ret' = service_type(obj.data)
    /\ UNCHANGED <<delivered, consumed, obj, fed, remaining_data, yielded>>

ServiceDescriptor_service_provider_name ==
    /\ Alive /\ obj.kind = "ServiceDescriptor"
    /\ call' = "service_provider_name"
    /\ ret' = service_provider_name(obj.data)
    /\ UNCHANGED <<delivered, consumed, obj, fed, remaining_data, yielded>>

ServiceDescriptor_service_name ==
    /\ Alive /\ obj.kind = "ServiceDescriptor"
    /\ call' = "service_name"
    /\ ret' = service_name(obj.data)
    /\ UNCHANGED <<delivered, consumed, obj, fed, remaining_data, yielded>>

Descriptor_dispatch ==
    /\ Alive /\ obj.kind = "Descriptor"
    /\ call' = "dispatch"
    /\ ret' = dispatch(obj.tag, obj.data)
    /\ UNCHANGED <<delivered, consumed, obj, fed, remaining_data, yielded>>

\* a ServiceIterator exists: constructed directly, or by services()
HasIterator ==
    \/ obj.kind = "ServiceIterator"
    \/ obj.kind = "SdtSection" /\ obj.iter

ServiceIterator_next ==
    /\ Alive /\ HasIterator
    /\ call' = "next"
    /\ LET r == next(remaining_data) IN
          /\ ret' = r.res
          /\ remaining_data' = r.rem
          /\ yielded' = IF r.res.tag = "Value" /\ r.res.val.tag = "Some"
                        THEN Append(yielded, r.res.val.val) ELSE yielded
    /\ UNCHANGED <<delivered, consumed, obj, fed>>

\* the Service the accessors are called on: the one yielded last
HasService == HasIterator /\ yielded # <<>>
TheService == yielded[Len(yielded)]

Service_service_id ==
    /\ Alive /\ HasService
    /\ call' = "service_id"
    /\ ret' = service_id(TheService.data)
    /\ UNCHANGED <<delivered, consumed, obj, fed, remaining_data, yielded>>

Service_eit_schedule_flag ==
    /\ Alive /\ HasService
    /\ call' = "eit_schedule_flag"
    /\ ret' = eit_schedule_flag(TheService.data)
    /\ UNCHANGED <<delivered, consumed, obj, fed, remaining_data, yielded>>

Service_eit_present_following_flag ==
    /\ Alive /\ HasService
    /\ call' = "eit_present_following_flag"
    /\ ret' = eit_present_following_flag(TheService.data)
    /\ UNCHANGED <<delivered, consumed, obj, fed, remaining_data, yielded>>

Service_running_status ==
    /\ Alive /\ HasService
    /\ call' = "running_status"
    /\ ret' = running_status(TheService.data)
    /\ UNCHANGED <<delivered, consumed, obj, fed, remaining_data, yielded>>

Service_free_ca_mode ==
    /\ Alive /\ HasService
    /\ call' = "free_ca_mode"
    /\ ret' = free_ca_mode(TheService.data)
    /\ UNCHANGED <<delivered, consumed, obj, fed, remaining_data, yielded>>

Service_descriptors ==
    /\ Alive /\ HasService
    /\ call' = "descriptors"
    /\ ret' = descriptors(TheService.data)
    /\ UNCHANGED <<delivered, consumed, obj, fed, remaining_data, yielded>>

\* SdtSection::new on the slice
New_SdtSection ==
    /\ Alive /\ obj.kind = "SdtSection" /\ ~obj.made
    /\ call' = "SdtSection::new"
    /\ ret' = SdtSection_new(obj.data)
    /\ obj' = [obj EXCEPT !.made = (ret'.tag # "Panic")]
    /\ UNCHANGED <<delivered, consumed, fed, remaining_data, yielded>>

SdtSection_buffer ==
    /\ Alive /\ obj.kind = "SdtSection" /\ obj.made
    /\ call' = "buffer"
    /\ ret' = section_buffer(obj.data)
    /\ UNCHANGED <<delivered, consumed, obj, fed, remaining_data, yielded>>

SdtSection_original_network_id ==
    /\ Alive /\ obj.kind = "SdtSection" /\ obj.made
    /\ call' = "original_network_id"
    /\ ret' = original_network_id(obj.data)
    /\ UNCHANGED <<delivered, consumed, obj, fed, remaining_data, yielded>>

\* services() makes a new iterator
SdtSection_services ==
    /\ Alive /\ obj.kind = "SdtSection" /\ obj.made
    /\ call' = "services"
    /\ ret' = Value("ServiceIterator")
    /\ remaining_data' = services(obj.data)
    /\ yielded' = <<>>
    /\ obj' = [obj EXCEPT !.iter = TRUE]
    /\ UNCHANGED <<delivered, consumed, fed>>

\* the framework delivers one more section
SdtProcessor_section ==
    /\ Alive /\ obj.kind = "SdtProcessor"
    /\ Len(delivered) < MaxSections
    /\ \E s \in SectionInputs :
          LET r == section([table_id |-> s.table_id], s.data) IN
          /\ delivered' = Append(delivered, s)
          /\ consumed' = consumed \o r.consumed
          /\ ret' = r.res
    /\ call' = "section"
    /\ UNCHANGED <<obj, fed, remaining_data, yielded>>

\* Text::new on the slice
New_Text ==
    /\ Alive /\ obj.kind = "Slice"
    /\ call' = "Text::new"
    /\ ret' = Text_new(obj.data)
    /\ UNCHANGED <<delivered, consumed, obj, fed, remaining_data, yielded>>

RunningStatus_from_id ==
    /\ Alive /\ obj.kind = "u8"
    /\ call' = "RunningStatus::from_id"
    /\ ret' = running_status_from_id(obj.id)
    /\ UNCHANGED <<delivered, consumed, obj, fed, remaining_data, yielded>>

\* format!("{:?}", text)
Text_fmt ==
    /\ Alive /\ obj.kind = "Text"
    /\ call' = "fmt"
    /\ ret' = fmt_Text(obj.data)
    /\ fed' = <<>>
    /\ UNCHANGED <<delivered, consumed, obj, remaining_data, yielded>>

\* format!("{:?}", service_descriptor)
ServiceDescriptor_fmt ==
    /\ Alive /\ obj.kind = "ServiceDescriptor"
    /\ call' = "fmt"
    /\ ret' = fmt_ServiceDescriptor(obj.data)
    /\ UNCHANGED <<delivered, consumed, obj, fed, remaining_data, yielded>>

Next ==
    \/ Text_encoding
    \/ Text_to_string
    \/ Text_to_string_with_replacement
    \/ ServiceDescriptor_service_type
    \/ ServiceDescriptor_service_provider_name
    \/ ServiceDescriptor_service_name
    \/ Descriptor_dispatch
    \/ ServiceIterator_next
    \/ Service_service_id
    \/ Service_eit_schedule_flag
    \/ Service_eit_present_following_flag
    \/ Service_running_status
    \/ Service_free_ca_mode
    \/ Service_descriptors
    \/ New_SdtSection
    \/ SdtSection_buffer
    \/ SdtSection_original_network_id
    \/ SdtSection_services
    \/ SdtProcessor_section
    \/ New_Text
    \/ RunningStatus_from_id
    \/ Text_fmt
    \/ ServiceDescriptor_fmt

Spec == Init /\ [][Next]_vars

(***************************************************************************)
(* Properties                                                              *)
(***************************************************************************)
IsText == obj.kind = "Text"
IsDecodeCall == call \in {"to_string", "to_string_with_replacement"}

\* the names of ISO 8859-n, n in 1..15 (there is no ISO 8859-12)
IsoVariant == <<"Iso88591", "Iso88592", "Iso88593", "Iso88594", "Iso88595",
                "Iso88596", "Iso88597", "Iso88598", "Iso88599", "Iso885910",
                "Iso885911", "none", "Iso885913", "Iso885914", "Iso885915">>

\* the selector table of EN 300 468 annex A, as the specification states it
SelectorTable(data) ==
    LET b == data[1] IN
    IF b \in 32..255 THEN <<"Iso88591">>
    ELSE IF b \in 1..7 THEN <<IsoVariant[b + 4]>>
    ELSE IF b \in 9..11 THEN <<IsoVariant[b + 4]>>
    ELSE IF b = 17 THEN <<"Iso10646">>
    ELSE IF b \in 18..21 THEN
        << <<"KSX1001_2004", "GB2312_1980", "Big5", "UTF8">>[b - 17] >>
    ELSE IF b = 16 THEN
        IF data[2] = 0 /\ data[3] \in (1..15) \ {12}
        THEN <<IsoVariant[data[3]]>>
        ELSE <<"Reserved2", data[2], data[3]>>
    ELSE <<"Reserved1", b>>

\* the prefixes the table speaks of: every first byte but 0x00 and 0x1F, and
\* 0x10 only with its two following bytes
HasTableEntry(data) ==
    /\ data[1] \notin {0, 31}
    /\ data[1] = 16 => Len(data) >= 3

\* C1: for every field prefix the selector table covers, Text::encoding()
\* returns the encoding the table gives: Latin-1 for 0x20..0xFF, the fixed
\* encodings for the single-byte selectors, Reserved1(b) with b unchanged for
\* the reserved single bytes, and for 0x10 h l the encoding ISO 8859-n when
\* (h,l) = (0,n), n in 1..15 and n # 12, else Reserved2(h,l) with both bytes
\* unchanged.
C1_EncodingTable ==
    (IsText /\ call = "encoding" /\ HasTableEntry(obj.data))
        => ret = Value(SelectorTable(obj.data))

\* encoding() has answered Reserved2(0, 12) for the field 0x10 0x00 0x0C
C1_Witness ==
    /\ IsText /\ call = "encoding"
    /\ obj.data = <<16, 0, 12>>
    /\ ret = Value(<<"Reserved2", 0, 12>>)

\* C2: Text::encoding() never fails: for every non-empty field, whatever its
\* first byte and its length, it returns a TextEncoding and does not abort.
C2_EncodingNeverFails ==
    (IsText /\ call = "encoding") => ret.tag = "Value"

\* C3: for a field whose first byte is 0x10 and whose length n is below 3,
\* both decode calls return the error NotEnoughData{expected: 3, available: n}.
C3_TruncatedSelector ==
    (IsText /\ IsDecodeCall /\ obj.data[1] = 16 /\ Len(obj.data) < 3)
        => ret = Err(NotEnoughData(3, Len(obj.data)))

\* the encoding a field resolves to (<<"none">> when encoding() panics)
Resolved(data) ==
    IF encoding(data).tag = "Value" THEN encoding(data).val ELSE <<"none">>

\* C4 as stated: both decode calls return UnsupportedEncoding for every field
\* that resolves to ISO 8859-9, ISO 8859-11, ISO 10646, KSX1001, GB2312, Big5,
\* Reserved1 or Reserved2.
C4_UnsupportedWithBig5 ==
    (IsText /\ IsDecodeCall
       /\ Resolved(obj.data)[1] \in {"Iso88599", "Iso885911", "Iso10646", "KSX1001_2004",
                                     "GB2312_1980", "Big5", "Reserved1", "Reserved2"})
        => ret = Err(UnsupportedEncoding(Resolved(obj.data)))

\* C4 amended: both decode calls return UnsupportedEncoding (carrying the
\* resolved encoding, and never DecodeFailure or text) for every field that
\* resolves to ISO 8859-9, ISO 8859-11, ISO 10646, KSX1001, GB2312, Reserved1
\* or Reserved2, and hand nothing to a decoder; a Big5 field (selector 0x14) is
\* decoded: to_string returns text or DecodeFailure, and
\* to_string_with_replacement returns text.
C4_Unsupported ==
    (IsText /\ IsDecodeCall) =>
        /\ Resolved(obj.data)[1] \in {"Iso88599", "Iso885911", "Iso10646", "KSX1001_2004",
                                      "GB2312_1980", "Reserved1", "Reserved2"}
              => /\ ret = Err(UnsupportedEncoding(Resolved(obj.data)))
                 /\ ret # Err(DecodeFailure)
                 /\ fed = <<>>
        /\ Resolved(obj.data)[1] = "Big5"
              => /\ fed = <<SliceFrom(obj.data, 1)>>
                 /\ \/ ret.tag = "Ok"
                    \/ call = "to_string" /\ ret = Err(DecodeFailure)

\* to_string_with_replacement has refused a GB2312 field with payload
C4_Witness ==
    /\ IsText /\ call = "to_string_with_replacement"
    /\ obj.data = <<19, 65, 164>>
    /\ ret = Err(UnsupportedEncoding(<<"GB2312_1980">>))

\* the charset the code decodes a resolved encoding with
CharsetOf(name) ==
    CASE name = "Iso88592" -> "ISO_8859_2"
      [] name = "Iso88593" -> "ISO_8859_3"
      [] name = "Iso88594" -> "ISO_8859_4"
      [] name = "Iso88595" -> "ISO_8859_5"
      [] name = "Iso88596" -> "ISO_8859_6"
      [] name = "Iso88597" -> "ISO_8859_7"
      [] name = "Iso88598" -> "ISO_8859_8"
      [] name = "Iso885910" -> "ISO_8859_10"
      [] name = "Iso885913" -> "ISO_8859_13"
      [] name = "Iso885914" -> "ISO_8859_14"
      [] name = "Iso885915" -> "ISO_8859_15"
      [] name = "Big5" -> "BIG5"
      [] name = "UTF8" -> "UTF_8"
      [] OTHER -> "latin1"

\* the encodings with a decode path
Decodable == {"Iso88591", "Iso88592", "Iso88593", "Iso88594", "Iso88595", "Iso88596",
              "Iso88597", "Iso88598", "Iso885910", "Iso885913", "Iso885914",
              "Iso885915", "Big5", "UTF8"}

\* the length of the selector prefix, by the first byte
PrefixLen(b) ==
    IF b \in 32..255 THEN 0 ELSE IF b = 16 THEN 3 ELSE IF b = 31 THEN 2 ELSE 1

\* the payload holds a byte sequence that is invalid in the field's charset
\* (none is in Latin-1)
PayloadInvalid(data) ==
    /\ Resolved(data)[1] # "Iso88591"
    /\ HasMalformed(DecodeUnits(CharsetOf(Resolved(data)[1]),
                                SliceFrom(data, PrefixLen(data[1]))))

\* C5: for a field whose encoding has a decode path, to_string returns
\* DecodeFailure exactly when the payload holds a byte sequence invalid in
\* that charset; to_string_with_replacement of the field returns Ok, never
\* DecodeFailure; and when to_string succeeds both return the same text.
C5_StrictAndReplace ==
    (IsText /\ Resolved(obj.data)[1] \in Decodable) =>
        /\ call = "to_string" =>
              /\ ret = Err(DecodeFailure) <=> PayloadInvalid(obj.data)
              /\ ~PayloadInvalid(obj.data) =>
                    /\ ret.tag = "Ok"
                    /\ ret = to_string_with_replacement(obj.data).res
        /\ call = "to_string_with_replacement" =>
              /\ ret.tag = "Ok"
              /\ to_string(obj.data).res.tag = "Ok" => ret = to_string(obj.data).res

\* to_string has failed on malformed UTF-8 (a lead byte with no continuation)
\* that the replace mode decodes to 'A' U+FFFD
C5_Witness ==
    /\ IsText /\ call = "to_string"
    /\ obj.data = <<21, 65, 195>>
    /\ ret = Err(DecodeFailure)
    /\ to_string_with_replacement(obj.data).res = Ok(<<U(65), REPLACEMENT_CHARACTER>>)

\* the text of a Rust string whose chars are the code points s
TextOf(s) == [i \in 1..Len(s) |-> U(s[i])]

\* C6: the bytes handed to the charset decoder are exactly field[k..], k = 0
\* for a first byte in 0x20..0xFF, 1 for a single-byte selector, 2 for 0x1F
\* and 3 for 0x10 (and k is what enc_prefix_len returns); a decode call that
\* returns text or DecodeFailure has handed the decoder that slice once; a
\* field starting with a byte in 0x20..0xFF decodes in either mode to one
\* Latin-1 character per byte, the first byte included; and the field 0x15
\* followed by the UTF-8 bytes of a string s decodes in strict mode to s.
C6_DecoderInput ==
    IsText =>
        /\ (obj.data[1] # 0 /\ (obj.data[1] = 16 => Len(obj.data) >= 3))
              => enc_prefix_len(obj.data) = Ok(PrefixLen(obj.data[1]))
        /\ IsDecodeCall =>
              /\ \A i \in 1..Len(fed) :
                    fed[i] = SliceFrom(obj.data, PrefixLen(obj.data[1]))
              /\ (ret.tag = "Ok" \/ ret = Err(DecodeFailure)) => Len(fed) = 1
              /\ obj.data[1] \in 32..255 =>
                    /\ ret.tag = "Ok"
                    /\ Len(ret.val) = Len(obj.data)
                    /\ \A i \in 1..Len(obj.data) : ret.val[i] = U(obj.data[i])
        /\ call = "to_string" =>
              \A s \in SampleStrings :
                  obj.data = <<21>> \o Utf8Encode(s) => ret = Ok(TextOf(s))

\* to_string has decoded 0x15 and the UTF-8 bytes of "e-acute, euro sign"
\* (C3 A9 E2 82 AC) to that string, from the slice after the selector
C6_Witness ==
    /\ IsText /\ call = "to_string"
    /\ obj.data = <<21, 195, 169, 226, 130, 172>>
    /\ fed = << <<195, 169, 226, 130, 172>> >>
    /\ ret = Ok(<<U(233), U(8364)>>)

IsServiceDescriptor == obj.kind = "ServiceDescriptor"

\* C7: service_provider_name() and service_name() never abort, on any
\* payload: when a length byte or the bytes it declares lie beyond the end of
\* the payload they return the error NotEnoughData.
C7_NamesNeverAbort ==
    (IsServiceDescriptor /\ call \in {"service_provider_name", "service_name"})
        => /\ ret.tag # "Panic"
           /\ (\/ Len(obj.data) < 2
               \/ 2 + obj.data[2] > Len(obj.data)
               \/ call = "service_name" /\ 2 + obj.data[2] >= Len(obj.data))
                 => (ret.tag = "Err" /\ ret.err.e = "NotEnoughData")

\* the service_type table of EN 300 468 (table 87), 0x01..0x1F; "" marks a
\* value the table leaves unassigned
ServiceTypeTable == <<
    "DigitalTelevision", "DigitalRadioSound", "Teletext", "NvodReference",
    "NvodTimeShifted", "Mosaic", "FmRadio", "DvbSrm", "",
    "AdvancedCodecDigitalRadioSound", "H264AvcMosaic", "DataBroadcast", "",
    "RcsMap", "RcsFls", "DvbMhp", "Mpeg2HdDigitalTelevision", "", "", "", "",
    "H264AvcSdDigitalTelevision", "H264AvcSdNvodTimeShifted",
    "H264AvcSdNvodReference", "H264AvcHdDigitalTelevision",
    "H264AvcHdNvodTimeShifted", "H264AvcHdNvodReference",
    "H264AvcFrameCompatiblePlanoStereoscopicHdDigitalTelevision",
    "H264AvcFrameCompatiblePlanoStereoscopicHdNvodTimeShifted",
    "H264AvcFrameCompatiblePlanoStereoscopicHdNvodReference",
    "HevcDigitalTelevision" >>

ServiceTypeOf(t) ==
    IF t \in 128..254 THEN <<"UserDefined", t>>
    ELSE IF t \in 1..31 /\ ServiceTypeTable[t] # "" THEN <<ServiceTypeTable[t]>>
    ELSE <<"Reserved", t>>

\* the payload is [t, p, P_1..P_p, s, S_1..S_s] with p >= 1 and s >= 1
WellFormed(data) ==
    /\ Len(data) >= 5
    /\ data[2] >= 1
    /\ Len(data) >= 3 + data[2]
    /\ data[3 + data[2]] >= 1
    /\ Len(data) = 3 + data[2] + data[3 + data[2]]

\* C8: for every well-formed Service Descriptor payload [t, p, P, s, S] with
\* p >= 1 and s >= 1, service_type() is the category the table gives t (0x01
\* DigitalTelevision, 0x80..0xFE UserDefined(t), every unassigned value
\* Reserved(t), no value without a category), service_provider_name() is a
\* text field over exactly P and service_name() one over exactly S; the
\* payload [0x01, 3, 'A','B','C', 2, 'X','Y'] gives DigitalTelevision and
\* names that decode to "ABC" and "XY".
C8_ServiceDescriptor ==
    (IsServiceDescriptor /\ WellFormed(obj.data)) =>
        LET p == obj.data[2]
            s == obj.data[3 + p]
        IN  /\ call = "service_type" =>
                  /\ ret = Value(ServiceTypeOf(obj.data[1]))
                  /\ obj.data[1] = 1 => ret = Value(<<"DigitalTelevision">>)
            /\ call = "service_provider_name" =>
                  /\ ret = Ok([data |-> SubSeq(obj.data, 3, 2 + p)])
                  /\ obj.data = <<1, 3, 65, 66, 67, 2, 88, 89>> =>
                        to_string(ret.val.data).res = Ok(TextOf(<<65, 66, 67>>))
            /\ call = "service_name" =>
                  /\ ret = Ok([data |-> SubSeq(obj.data, 4 + p, 3 + p + s)])
                  /\ obj.data = <<1, 3, 65, 66, 67, 2, 88, 89>> =>
                        to_string(ret.val.data).res = Ok(TextOf(<<88, 89>>))

\* service_name() has returned the field 'X','Y' of the example payload
C8_Witness ==
    /\ IsServiceDescriptor /\ call = "service_name"
    /\ obj.data = <<1, 3, 65, 66, 67, 2, 88, 89>>
    /\ ret = Ok([data |-> <<88, 89>>])

\* C9: the tag table covers every tag 0..255 with exactly one arm; tag 0x48
\* and no other is routed to the ServiceDescriptor decoder, whose assertion on
\* the tag therefore does not fire; every other tag yields the opaque
\* UnknownDescriptor holding the tag and the raw payload, without failing.
C9_DispatchTable ==
    (obj.kind = "Descriptor" /\ call = "dispatch") =>
        /\ Cardinality(MatchingArms(obj.tag)) = 1
        /\ ret.tag = "Ok"
        /\ (ret.val.t = "ServiceDescriptor") <=> (obj.tag = 72)
        /\ obj.tag = 72 =>
              ret.val = [variant |-> "Service", t |-> "ServiceDescriptor",
                         inner |-> [data |-> obj.data]]
        /\ obj.tag # 72 =>
              /\ ret.val.t = "UnknownDescriptor"
              /\ ret.val.inner = [tag |-> obj.tag, payload |-> obj.data]

\* tag 70 (0x46, in the range 69..=70) has been dispatched to the fallback
C9_Witness ==
    /\ obj.kind = "Descriptor" /\ call = "dispatch"
    /\ obj.tag = 70 /\ obj.data = <<255>>
    /\ ret = Ok([variant |-> "UserPrivate", t |-> "UnknownDescriptor",
                 inner |-> [tag |-> 70, payload |-> <<255>>]])

IsBuiltOfRecords == obj.kind = "ServiceIterator" /\ obj.wf

\* the bytes of the records yielded so far, in order
YieldedBytes == Flatten([i \in 1..Len(yielded) |-> yielded[i].data])

\* C10: over a buffer that is the concatenation of N well-formed service
\* records the iterator yields exactly those N records, in buffer order (so
\* their concatenation is the buffer), and then None; over the empty buffer
\* the first next() yields None.
C10_IteratorRoundTrip ==
    IsBuiltOfRecords =>
        /\ ret.tag # "Panic"
        /\ Len(yielded) <= Len(obj.recs)
        /\ \A i \in 1..Len(yielded) : yielded[i] = [data |-> obj.recs[i]]
        /\ call = "next" =>
              /\ ret = Value(None) =>
                    /\ Len(yielded) = Len(obj.recs)
                    /\ remaining_data = <<>>
                    /\ YieldedBytes = obj.data
              /\ ret # Value(None) => ret = Value(Some(yielded[Len(yielded)]))
              /\ obj.data = <<>> => ret = Value(None)

\* the iterator has yielded three records, the 261-byte one first, and then
\* None
C10_Witness ==
    /\ IsBuiltOfRecords /\ call = "next"
    /\ Len(obj.recs) = 3 /\ Len(obj.recs[1]) = 261 /\ Len(obj.recs[2]) = 15
    /\ Len(yielded) = 3
    /\ ret = Value(None)

(***************************************************************************)
(* C11..C20: the service loop, the section and the router                  *)
(***************************************************************************)
\* the buffer the iterator was constructed over
IterBuffer == IF obj.kind = "SdtSection" THEN SubSeq(obj.data, 4, Len(obj.data))
              ELSE obj.data

\* a non-empty remaining_data that does not start with a whole record
MalformedLength(rd) ==
    /\ Len(rd) > 0
    /\ \/ Len(rd) < 5
       \/ 5 + (rd[4] % 16) * 256 + rd[5] > Len(rd)

\* C11: ServiceIterator::next() checks the declared size before it advances:
\* when remaining_data is non-empty but shorter than the 5-byte record header,
\* or 5 + the declared loop length exceeds what remains, next() does not
\* abort, and no record it yields extends past the end of the buffer.
C11_NextChecksLength ==
    (HasIterator /\ call = "next") =>
        /\ ret.tag # "Panic"
        /\ Len(YieldedBytes) <= Len(IterBuffer)
        /\ (MalformedLength(remaining_data) => ret.tag = "Value")

\* the byte b with the bits of mask m kept and every other bit inverted
FlipOutside(b, m) == BitAnd(b, m) + BitAnd(255 - b, 255 - m)

\* the record d with every header bit outside the masks inverted
OtherBitsFlipped(d, masks) ==
    [i \in 1..Len(d) |-> IF i <= 5 THEN FlipOutside(d[i], masks[i]) ELSE d[i]]

RunningStatusTable ==
    <<<<"Undefined">>, <<"NotRunning">>, <<"StartsInAFewSeconds">>, <<"Pausing">>,
      <<"Running">>, <<"ServiceOffAir">>, <<"Reserved", 6>>, <<"Reserved", 7>>>>

\* C12: on a yielded record d (bytes d[1]..d[5] are bytes 0..4 of the source)
\* service_id is byte0 * 256 + byte1, eit_schedule_flag is bit 1 and
\* eit_present_following_flag bit 0 of byte 2, running_status is the top three
\* bits of byte 3 mapped over 0..7 and never aborts, free_ca_mode is bit 4 of
\* byte 3, the descriptor loop length is (byte3 mod 16) * 256 + byte4; and
\* inverting every header bit outside a field leaves its accessor's result
\* unchanged.
C12_ServiceFields ==
    HasService =>
        LET d == TheService.data IN
        /\ call = "service_id" =>
              /\ ret = Value(d[1] * 256 + d[2])
              /\ ret = service_id(OtherBitsFlipped(d, <<255, 255, 0, 0, 0>>))
        /\ call = "eit_schedule_flag" =>
              /\ ret = Value((d[3] \div 2) % 2 = 1)
              /\ ret = eit_schedule_flag(OtherBitsFlipped(d, <<0, 0, 2, 0, 0>>))
        /\ call = "eit_present_following_flag" =>
              /\ ret = Value(d[3] % 2 = 1)
              /\ ret = eit_present_following_flag(OtherBitsFlipped(d, <<0, 0, 1, 0, 0>>))
        /\ call = "running_status" =>
              /\ ret = Value(RunningStatusTable[(d[4] \div 32) + 1])
              /\ ret = running_status(OtherBitsFlipped(d, <<0, 0, 0, 224, 0>>))
        /\ call = "free_ca_mode" =>
              /\ ret = Value((d[4] \div 16) % 2 = 1)
              /\ ret = free_ca_mode(OtherBitsFlipped(d, <<0, 0, 0, 16, 0>>))
        /\ call = "descriptors" =>
              /\ ret.tag = "Value"
              /\ Len(ret.val.buf) = (d[4] % 16) * 256 + d[5]
              /\ descriptors_loop_length(d) = Value((d[4] % 16) * 256 + d[5])
              /\ descriptors_loop_length(d) =
                    descriptors_loop_length(OtherBitsFlipped(d, <<0, 0, 0, 15, 255>>))

\* free_ca_mode is read from a record whose byte 3 has every bit set and whose
\* descriptor loop has the largest length, 4095
C12_Witness ==
    /\ HasService /\ call = "free_ca_mode"
    /\ TheService.data[4] = 255 /\ Len(TheService.data) = 4100
    /\ ret.tag = "Value" /\ ret.val

IsSdtSection == obj.kind = "SdtSection"

\* C13: SdtSection::new aborts exactly when the slice has at most 3 bytes;
\* on a longer slice original_network_id() is data[0] * 256 + data[1],
\* buffer() is the slice unchanged, and services() iterates over exactly
\* data[3..] (byte 2 is skipped).
C13_SdtSection ==
    IsSdtSection =>
        /\ call = "SdtSection::new" =>
              /\ ret.tag = "Panic" <=> Len(obj.data) <= 3
              /\ ret.tag # "Panic" => ret = Value([data |-> obj.data])
        /\ obj.made <=> (call # "none" /\ Len(obj.data) > 3)
        /\ call = "original_network_id" => ret = Value(obj.data[1] * 256 + obj.data[2])
        /\ call = "buffer" => ret = Value(obj.data)
        /\ call = "services" =>
              /\ yielded = <<>>
              /\ remaining_data = SubSeq(obj.data, 4, Len(obj.data))
        /\ obj.iter => YieldedBytes \o remaining_data = SubSeq(obj.data, 4, Len(obj.data))

\* services() was called on a section that holds one service record, and the
\* record has been yielded
C13_Witness ==
    /\ IsSdtSection /\ obj.iter /\ call = "next"
    /\ obj.data = <<35, 58, 255, 16, 67, 255, 128, 0>>
    /\ yielded = <<[data |-> <<16, 67, 255, 128, 0>>]>>

IsSdtProcessor == obj.kind = "SdtProcessor"

\* the bytes of a delivered section between the two headers and the CRC
BodyOf(s) == SubSeq(s.data, 9, Len(s.data) - 4)

RECURSIVE Routed(_)
Routed(ss) ==
    IF ss = <<>> THEN <<>>
    ELSE LET s == Head(ss) IN
         (CASE s.table_id = 66 -> <<Actual([data |-> BodyOf(s)])>>
            [] s.table_id = 70 -> <<Other([data |-> BodyOf(s)])>>
            [] OTHER -> <<>>) \o Routed(Tail(ss))

\* C15 as stated: for any sequence of sections delivered one after another
\* the consumer calls are exactly the sections with table id 0x42 or 0x46, in
\* delivery order, and a section of any other table id, whatever its length
\* or content, neither stops the router nor changes what follows.
C15_RouterAnyLength ==
    IsSdtProcessor => (ret.tag # "Panic" /\ consumed = Routed(delivered))

\* C15, amended: the same for sequences of sections whose bodies are longer
\* than 3 bytes.
C15_Router ==
    (IsSdtProcessor /\ \A i \in 1..Len(delivered) : Len(BodyOf(delivered[i])) > 3) =>
        (ret.tag # "Panic" /\ consumed = Routed(delivered))

\* a dropped section is followed by an Actual and an Other one
C15_Witness ==
    /\ IsSdtProcessor /\ Len(delivered) = 3 /\ Len(consumed) = 2
    /\ delivered[1].table_id = 0
    /\ consumed[1].variant = "Actual" /\ consumed[2].variant = "Other"

\* C16: for every section body longer than 3 bytes the whole traversal
\* (services(), the fields of each record, descriptors(), and on a service
\* descriptor service_type, both names and their decoding in either mode)
\* ends in values or typed errors; nothing aborts.
C16_TraversalNeverAborts ==
    ((IsSdtSection /\ obj.made) \/ IsServiceDescriptor \/ IsText) => ret.tag # "Panic"

\* C17: Debug-formatting a Text always completes and renders the decode with
\* replacement, for every non-empty field; Debug-formatting a
\* ServiceDescriptor completes over any payload.
C17_DebugCompletes ==
    call = "fmt" =>
        /\ ret.tag = "Value"
        /\ IsText => ret.val.debug = to_string_with_replacement(obj.data).res

\* C18: RunningStatus::from_id returns a value for every u8: 0..5 the named
\* states, 6 and 7 Reserved(id), and a value (no abort) above 7.
C18_FromIdTotal ==
    (obj.kind = "u8" /\ call = "RunningStatus::from_id") =>
        /\ ret.tag = "Value"
        /\ obj.id <= 7 => ret.val = RunningStatusTable[obj.id + 1]

\* C19: after any number of next() calls the yielded records followed by
\* remaining_data are the original buffer; every yielded record is exactly
\* 5 + its descriptors_loop_length() bytes long (at most 4100, so the 16-bit
\* sum in next() is the same number), its accessors and descriptors() stay
\* inside it, descriptors() covering bytes 5..end; and every yield takes at
\* least 5 bytes, so at most Len(buffer) \div 5 records are yielded.
C19_IteratorInvariant ==
    HasIterator =>
        /\ YieldedBytes \o remaining_data = IterBuffer
        /\ 5 * Len(yielded) <= Len(IterBuffer)
        /\ Len(remaining_data) <= Len(IterBuffer) - 5 * Len(yielded)
        /\ \A i \in 1..Len(yielded) :
              LET d == yielded[i].data
                  l == descriptors_loop_length(d)
              IN  /\ l.tag = "Value"
                  /\ Len(d) = 5 + l.val
                  /\ Len(d) <= 4100
                  /\ (5 + l.val) % 65536 = 5 + l.val
                  /\ descriptors(d) = Value(DescriptorIter_new(SubSeq(d, 6, Len(d))))
                  /\ service_id(d).tag = "Value"
                  /\ eit_schedule_flag(d).tag = "Value"
                  /\ eit_present_following_flag(d).tag = "Value"
                  /\ running_status(d).tag = "Value"
                  /\ free_ca_mode(d).tag = "Value"
        /\ call \in {"service_id", "eit_schedule_flag", "eit_present_following_flag",
                     "running_status", "free_ca_mode", "descriptors"} => ret.tag = "Value"

\* descriptors() is called on the second record yielded, one with a 256-byte
\* descriptor loop, while bytes remain
C19_Witness ==
    /\ HasIterator /\ call = "descriptors" /\ Len(yielded) = 2
    /\ Len(TheService.data) = 261 /\ remaining_data # <<>>
    /\ ret = Value(DescriptorIter_new([i \in 1..256 |-> 0]))

\* C20: every Text is non-empty.  Text::new returns NotEnoughData{expected:
\* 1, available: 0} on the empty slice and a Text over exactly the slice
\* otherwise; service_provider_name() and service_name() return that error
\* when the declared name length is 0 and fits; a Text they return is never
\* empty, so encoding() has a first byte to read.
C20_TextNonEmpty ==
    /\ (obj.kind = "Slice" /\ call = "Text::new") =>
          ret = IF obj.data = <<>> THEN Err(NotEnoughData(1, 0))
                ELSE Ok([data |-> obj.data])
    /\ IsText => (Len(obj.data) >= 1 /\ Text_new(obj.data) = Ok([data |-> obj.data]))
    /\ (IsServiceDescriptor /\ call \in {"service_provider_name", "service_name"}) =>
          LET d == obj.data IN
          /\ ret.tag = "Ok" => Len(ret.val.data) >= 1
          /\ (call = "service_provider_name" /\ Len(d) >= 2 /\ d[2] = 0) =>
                ret = Err(NotEnoughData(1, 0))
          /\ (call = "service_name" /\ Len(d) >= 2 /\ Len(d) >= 3 + d[2]
                /\ d[3 + d[2]] = 0) =>
                ret = Err(NotEnoughData(1, 0))

\* service_name() finds a declared length of 0 after a one-byte provider name
C20_Witness ==
    /\ IsServiceDescriptor /\ call = "service_name"
    /\ obj.data = <<1, 1, 65, 0>>
    /\ ret = Err(NotEnoughData(1, 0))
====
